---------------------------- MODULE Spec2Model ----------------------------
(***************************************************************************)
(* Model of idle_time/__init__.py: the IdleMonitor base class with its     *)
(* subclass registry and get_monitor search loop, and the three backends   *)
(* (WindowsIdleMonitor, GnomeWaylandIdleMonitor, X11IdleMonitor).          *)
(*                                                                         *)
(* Conventions.                                                            *)
(*  - A class is named by a string.  "Other" is a subclass defined outside *)
(*    the module that inherits IdleMonitor.get_idle_time unchanged.        *)
(*    "GnomeChild" is a subclass of GnomeWaylandIdleMonitor defined        *)
(*    outside the module that overrides nothing.  Classes may be           *)
(*    registered in any order that defines a base before its subclass:     *)
(*    "Windows" also stands for any backend that always constructs and     *)
(*    answers, wherever it is defined.                                     *)
(*  - get_idle_time returns idle_ms / 1000.  The model keeps the quotient  *)
(*    exact as a fraction [num, den] (Seconds) instead of a float.         *)
(*  - TLC's integers are 32 bits wide and signed, so millisecond values    *)
(*    are counted in units of 8 ms: a second is 125 units and the 32-bit   *)
(*    tick counter wraps at 2^32 / 8 = 2^29 units.                         *)
(*  - An exception is the string of its type and message.                  *)
(*  - The platform (environment variables, libraries, session bus, X       *)
(*    server) is the variable env; it changes between operations only.     *)
(*  - last, events and discarded describe the most recent operation and    *)
(*    are reset by every step that is not an operation on a monitor.       *)
(***************************************************************************)
EXTENDS Integers, Sequences, FiniteSets

VARIABLES
    subclasses,   \* IdleMonitor.subclasses: the registry, in registration order
    env,          \* the platform the process runs on
    monitor,      \* the instance the caller holds (None before a get_monitor returned)
    alive,        \* FALSE once the process was killed by a signal
    last,         \* outcome of the most recent operation
    events,       \* constructor and get_idle_time calls made by the most recent operation
    discarded     \* instances the most recent get_monitor built and dropped

vars == <<subclasses, env, monitor, alive, last, events, discarded>>

----------------------------------------------------------------------------
(* Bounds of the model *)

MaxSubclasses == 3

(* Program and platform constants *)

DefaultThreshold == 120
\* the divisor 1000 of get_idle_time, in units of 8 ms
UnitsPerSecond == 125
\* the number of values of a DWORD millisecond counter (2^32), in units of 8 ms
TickWrap == 536870912

Classes == {"Windows", "Gnome", "X11", "Other"}

\* a class statement outside the module naming a backend as its base
DerivedClasses == {"GnomeChild"}

\* the base in the class statement of cls
BaseOf(cls) == IF cls = "GnomeChild" THEN "Gnome" ELSE "IdleMonitor"

\* the class whose __init__ and get_idle_time an instance of cls runs
Resolve(cls) == IF cls = "GnomeChild" THEN "Gnome" ELSE cls

None == [cls |-> "None"]

\* keyword arguments of a call: idle_threshold given or not, and whether a keyword
\* no constructor accepts is passed as well
Thresholds == {300}
KwargsSet ==
    {[given |-> TRUE, idle_threshold |-> t, extra |-> FALSE] : t \in Thresholds}
        \cup {[given |-> FALSE, idle_threshold |-> 0, extra |-> x] : x \in BOOLEAN}

\* idle counters reported by the session bus reply or the screen-saver
\* extension: 0 s, 50 s, 120 s and 300 s
IdleValues == {s * UnitsPerSecond : s \in {0, 50, 120, 300}}
\* readings of the wrapping tick counter: 0 s, 300 s and the largest one
TickValues == {s * UnitsPerSecond : s \in {0, 300}} \cup {TickWrap - 1}

\* what the platform reports to one get_idle_time call: the idle counter of the
\* bus reply or of the extension, and the two readings of the tick counter
Inputs == [reply : IdleValues, now : TickValues, lastInput : TickValues]
\* the readings a call on an instance of cls depends on
InputsFor(cls) ==
    IF cls = "Windows"
    THEN {in \in Inputs : in.reply = 0}
    ELSE {in \in Inputs : in.now = 0 /\ in.lastInput = 0}
\* the readings offered to the probes of one get_monitor call
ProbeInputs ==
    {in \in Inputs : /\ in.reply \in {0, 300 * UnitsPerSecond}
                     /\ in.now = in.reply
                     /\ in.lastInput = 0}

BusStates == {"down", "ServiceUnknown", "DBusError", "IOError", "Reply"}
X11States == {"NoLibX11", "NoDisplay", "NoLibXss", "Ok"}
Envs == [desktop : BOOLEAN, bus : BusStates, x11 : X11States]

ServiceUnknownName == "org.freedesktop.DBus.Error.ServiceUnknown"
OtherErrorName == "org.freedesktop.DBus.Error.Failed"

NoMonitorError == "RuntimeError: Could not find a working monitor."
MutterError == "RuntimeError: Gnome Mutter is not available, is gnome running?"
GnomeNotRunning == "RuntimeError: Gnome is not running."

----------------------------------------------------------------------------
(* Values *)

\* idle_time / 1000, kept exact
Seconds(ms) == [num |-> ms, den |-> UnitsPerSecond]

\* q >= t in place of q > t
GreaterOrEqual(q, t) == q.num >= t * q.den

\* q > t for a fraction q and a number t
Greater(q, t) == q.num > t * q.den

NoValue == [num |-> 0, den |-> 0]
NoExc == "none"

----------------------------------------------------------------------------
(* IdleMonitor.__init__ *)

NewInstance(cls, threshold) ==
    [cls |-> cls, idle_threshold |-> threshold, connection |-> "none",
     display |-> "none", xss_info |-> "none"]

\* __init__ that drops the argument and stores the default
IdleMonitorInitDefaultOnly(cls, kwargs) ==
    IF kwargs.extra
    THEN [status |-> "raise", exc |-> "TypeError: unexpected keyword argument",
          m |-> NewInstance(cls, DefaultThreshold)]
    ELSE [status |-> "ok", exc |-> NoExc, m |-> NewInstance(cls, DefaultThreshold)]

\* the keyword-only signature accepts idle_threshold alone
IdleMonitorInit(cls, kwargs) ==
    IF kwargs.extra
    THEN [status |-> "raise", exc |-> "TypeError: unexpected keyword argument",
          m |-> NewInstance(cls, DefaultThreshold)]
    ELSE [status |-> "ok", exc |-> NoExc,
          m |-> NewInstance(cls, IF kwargs.given
                                 THEN kwargs.idle_threshold
                                 ELSE DefaultThreshold)]

(* GnomeWaylandIdleMonitor.__init__ *)
GnomeInit(cls, kwargs, e) ==
    LET base == IdleMonitorInit(cls, kwargs) IN
    IF base.status # "ok" THEN base
    ELSE IF ~e.desktop
    THEN [base EXCEPT !.status = "raise", !.exc = GnomeNotRunning]
    ELSE IF e.bus = "down"
    THEN [base EXCEPT !.status = "raise", !.exc = "ConnectionError: session bus"]
    ELSE [base EXCEPT !.m.connection = "open"]

(* X11IdleMonitor.__init__ with _load_lib *)
X11Init(kwargs, e) ==
    LET base == IdleMonitorInit("X11", kwargs) IN
    IF base.status # "ok" THEN base
    ELSE IF e.x11 = "NoLibX11"
    THEN [base EXCEPT !.status = "raise",
                      !.exc = "OSError: Could not find library X11"]
    ELSE IF e.x11 = "NoDisplay"
    \* XOpenDisplay returned NULL and XDefaultRootWindow dereferences it
    THEN [base EXCEPT !.status = "crash", !.exc = "SIGSEGV"]
    ELSE IF e.x11 = "NoLibXss"
    THEN [base EXCEPT !.status = "raise",
                      !.exc = "OSError: Could not find library Xss",
                      !.m.display = "open"]
    ELSE [base EXCEPT !.m.display = "open", !.m.xss_info = "allocated"]

\* monitor_class(**kwargs)
Construct(cls, kwargs, e) ==
    CASE Resolve(cls) = "Gnome" -> GnomeInit(cls, kwargs, e)
      [] Resolve(cls) = "X11" -> X11Init(kwargs, e)
      [] OTHER -> IdleMonitorInit(cls, kwargs)

----------------------------------------------------------------------------
(* get_idle_time of each class.  Each returns the outcome of one call on    *)
(* instance m: status "return" with value, or "raise" with exc; dbus is the *)
(* name of the bus error response the call received, if any; m is the       *)
(* instance after the call.                                                 *)

Outcome(status, value, exc, dbus, m) ==
    [status |-> status, value |-> value, idle |-> FALSE, exc |-> exc, dbus |-> dbus,
     m |-> m]

\* IdleMonitor.get_idle_time
BaseGetIdleTime(m) ==
    Outcome("raise", NoValue, "NotImplementedError", NoExc, m)

\* WindowsIdleMonitor.get_idle_time
WindowsGetIdleTime(m, in) ==
    Outcome("return", Seconds(in.now - in.lastInput), NoExc, NoExc, m)

\* the handler without its close(): the error is translated, the connection kept
GnomeOnDBusErrorNoClose(m, name) ==
    IF name = ServiceUnknownName
    THEN Outcome("raise", NoValue, MutterError, name, m)
    ELSE Outcome("raise", NoValue, "DBusErrorResponse", name, m)

\* the handler closing the connection for "service unknown" alone
GnomeOnDBusErrorCloseOnlyUnknown(m, name) ==
    IF name = ServiceUnknownName
    THEN Outcome("raise", NoValue, MutterError, name, [m EXCEPT !.connection = "closed"])
    ELSE Outcome("raise", NoValue, "DBusErrorResponse", name, m)

\* the except DBusErrorResponse handler of GnomeWaylandIdleMonitor.get_idle_time
GnomeOnDBusError(m, name) ==
    LET closed == [m EXCEPT !.connection = "closed"] IN
    IF name = ServiceUnknownName
    THEN Outcome("raise", NoValue, MutterError, name, closed)
    ELSE Outcome("raise", NoValue, "DBusErrorResponse", name, closed)

\* get_idle_time on a connection that serves requests again after close()
GnomeGetIdleTimeIgnoresClosed(m, e, in) ==
    CASE e.bus = "Reply" -> Outcome("return", Seconds(in.reply), NoExc, NoExc, m)
      [] e.bus = "ServiceUnknown" -> GnomeOnDBusError(m, ServiceUnknownName)
      [] e.bus = "DBusError" -> GnomeOnDBusError(m, OtherErrorName)
      [] OTHER -> Outcome("raise", NoValue, "OSError: session bus", NoExc, m)

\* GnomeWaylandIdleMonitor.get_idle_time
GnomeGetIdleTime(m, e, in) ==
    IF m.connection # "open"
    \* send_and_get_reply on a closed connection fails in the socket layer
    THEN Outcome("raise", NoValue, "OSError: connection is closed", NoExc, m)
    ELSE CASE e.bus = "Reply" -> Outcome("return", Seconds(in.reply), NoExc, NoExc, m)
           [] e.bus = "ServiceUnknown" -> GnomeOnDBusError(m, ServiceUnknownName)
           [] e.bus = "DBusError" -> GnomeOnDBusError(m, OtherErrorName)
           [] OTHER -> Outcome("raise", NoValue, "OSError: session bus", NoExc, m)

\* X11IdleMonitor.get_idle_time
X11GetIdleTime(m, in) ==
    Outcome("return", Seconds(in.reply), NoExc, NoExc, m)

\* the get_idle_time the class of m defines or inherits
ClassGetIdleTime(m, e, in) ==
    CASE Resolve(m.cls) = "Windows" -> WindowsGetIdleTime(m, in)
      [] Resolve(m.cls) = "Gnome" -> GnomeGetIdleTime(m, e, in)
      [] Resolve(m.cls) = "X11" -> X11GetIdleTime(m, in)
      [] OTHER -> BaseGetIdleTime(m)

\* a get_idle_time that, when the call fails, falls back to the first registered
\* class that works and answers from a new instance of it
GetIdleTimeReselect(m, e, in) ==
    LET q == ClassGetIdleTime(m, e, in)
        new(i) == Construct(subclasses[i], [given |-> TRUE, extra |-> FALSE,
                                            idle_threshold |-> m.idle_threshold], e)
        ok == {i \in 1..Len(subclasses) :
                  /\ new(i).status = "ok"
                  /\ ClassGetIdleTime(new(i).m, e, in).status = "return"} IN
    IF q.status = "return" \/ ok = {}
    THEN q
    ELSE ClassGetIdleTime(new(CHOOSE i \in ok : \A j \in ok : i <= j).m, e, in)

\* m.get_idle_time()
GetIdleTimeOf(m, e, in) == ClassGetIdleTime(m, e, in)

\* IdleMonitor.is_idle
IsIdleOf(m, e, in) ==
    LET q == GetIdleTimeOf(m, e, in) IN
    [q EXCEPT !.idle = IF q.status = "return"
                       THEN Greater(q.value, m.idle_threshold)
                       ELSE FALSE]

----------------------------------------------------------------------------
(* IdleMonitor.get_monitor *)

Event(call, i, ok) == [call |-> call, index |-> i, ok |-> ok]

\* Attempt with the probe outside the try statement: its failure ends the loop
AttemptProbeUnguarded(i, cls, kwargs, e, in) ==
    LET c == Construct(cls, kwargs, e) IN
    IF c.status = "crash"
    THEN [outcome |-> "crash", exc |-> c.exc, m |-> c.m,
          events |-> <<Event("construct", i, FALSE)>>]
    ELSE IF c.status = "raise"
    THEN [outcome |-> "except", exc |-> c.exc, m |-> c.m,
          events |-> <<Event("construct", i, FALSE)>>]
    ELSE LET p == GetIdleTimeOf(c.m, e, in) IN
         IF p.status = "return"
         THEN [outcome |-> "return", exc |-> NoExc, m |-> p.m,
               events |-> <<Event("construct", i, TRUE),
                            Event("get_idle_time", i, TRUE)>>]
         ELSE [outcome |-> "crash", exc |-> p.exc, m |-> p.m,
               events |-> <<Event("construct", i, TRUE),
                            Event("get_idle_time", i, FALSE)>>]

\* Attempt without the probe: an instance that constructs is returned untested
AttemptReturnsUnprobed(i, cls, kwargs, e, in) ==
    LET c == Construct(cls, kwargs, e) IN
    IF c.status = "crash"
    THEN [outcome |-> "crash", exc |-> c.exc, m |-> c.m,
          events |-> <<Event("construct", i, FALSE)>>]
    ELSE IF c.status = "raise"
    THEN [outcome |-> "except", exc |-> c.exc, m |-> c.m,
          events |-> <<Event("construct", i, FALSE)>>]
    ELSE [outcome |-> "return", exc |-> NoExc, m |-> c.m,
          events |-> <<Event("construct", i, TRUE)>>]

\* the body of the try statement for the candidate at position i:
\* "return" (m is the monitor), "except" (the handler logged a warning and
\* the instance m is dropped) or "crash" (the process was killed)
Attempt(i, cls, kwargs, e, in) ==
    LET c == Construct(cls, kwargs, e) IN
    IF c.status = "crash"
    THEN [outcome |-> "crash", exc |-> c.exc, m |-> c.m,
          events |-> <<Event("construct", i, FALSE)>>]
    ELSE IF c.status = "raise"
    THEN [outcome |-> "except", exc |-> c.exc, m |-> c.m,
          events |-> <<Event("construct", i, FALSE)>>]
    ELSE LET p == GetIdleTimeOf(c.m, e, in) IN
         IF p.status = "return"
         THEN [outcome |-> "return", exc |-> NoExc, m |-> p.m,
               events |-> <<Event("construct", i, TRUE),
                            Event("get_idle_time", i, TRUE)>>]
         ELSE [outcome |-> "except", exc |-> p.exc, m |-> p.m,
               events |-> <<Event("construct", i, TRUE),
                            Event("get_idle_time", i, FALSE)>>]

\* the for loop from position i on, and the raise after it
RECURSIVE Search(_, _, _, _, _)
Search(regs, i, kwargs, e, in) ==
    IF i > Len(regs)
    THEN [status |-> "raise", exc |-> NoMonitorError, m |-> None,
          events |-> <<>>, discarded |-> <<>>]
    ELSE LET a == Attempt(i, regs[i], kwargs, e, in) IN
         CASE a.outcome = "return" ->
                [status |-> "return", exc |-> NoExc, m |-> a.m,
                 events |-> a.events, discarded |-> <<>>]
           [] a.outcome = "crash" ->
                [status |-> "crash", exc |-> a.exc, m |-> None,
                 events |-> a.events, discarded |-> <<>>]
           [] OTHER ->
                LET r == Search(regs, i + 1, kwargs, e, in) IN
                [r EXCEPT !.events = a.events \o @,
                          !.discarded = <<a.m>> \o @]

\* a get_monitor that keeps the monitor it returned and returns it again
GetMonitorCached(regs, kwargs, e, in) ==
    IF monitor.cls # "None"
    THEN [status |-> "return", exc |-> NoExc, m |-> monitor,
          events |-> <<>>, discarded |-> <<>>]
    ELSE Search(regs, 1, kwargs, e, in)

\* cls.get_monitor(**kwargs)
GetMonitorOf(regs, kwargs, e, in) == Search(regs, 1, kwargs, e, in)

----------------------------------------------------------------------------
(* The state machine *)

NoKwargs == [given |-> FALSE, idle_threshold |-> 0, extra |-> FALSE]

\* last: the operation, the class get_monitor was called on, its arguments, the
\* class of the monitor the caller held before it, and what it returned or raised
NoOp == [op |-> "none", on |-> "IdleMonitor", kwargs |-> NoKwargs,
         prev |-> "None", status |-> "none",
         value |-> NoValue, idle |-> FALSE, exc |-> NoExc, dbus |-> NoExc]

Init ==
    /\ subclasses = <<>>
    /\ env \in Envs
    /\ monitor = None
    /\ alive = TRUE
    /\ last = NoOp
    /\ events = <<>>
    /\ discarded = <<>>

\* a lookup that finds a list of its own, still empty, on every subclass
SubclassesOwn(cls) == IF cls = "IdleMonitor" THEN subclasses ELSE <<>>

\* cls.subclasses: no subclass assigns the attribute, so the lookup on any class
\* finds the list of IdleMonitor
SubclassesOf(cls) == subclasses

\* cls.subclasses.append(cls) with the class inserted in front instead
RegisterFirst(regs, cls) == <<cls>> \o regs

\* cls.subclasses.append(cls)
Register(regs, cls) == Append(regs, cls)

\* a class statement with IdleMonitor among its bases: __init_subclass__.
\* A class statement is executed once, so a class is registered once.
InitSubclass(cls) ==
    /\ alive
    /\ Len(subclasses) < MaxSubclasses
    /\ \A i \in 1..Len(subclasses) : subclasses[i] # cls
    /\ \/ BaseOf(cls) = "IdleMonitor"
       \/ \E i \in 1..Len(subclasses) : subclasses[i] = BaseOf(cls)
    /\ subclasses' = Register(SubclassesOf(cls), cls)
    /\ last' = NoOp
    /\ events' = <<>>
    /\ discarded' = <<>>
    /\ UNCHANGED <<env, monitor, alive>>

\* the platform changes in one respect: a variable is set, the bus or its
\* service starts, stops or fails, a library or the X server comes or goes
SetEnvironment(e) ==
    /\ alive
    /\ e # env
    /\ \/ e.bus = env.bus /\ e.x11 = env.x11
       \/ e.desktop = env.desktop /\ e.x11 = env.x11
       \/ e.desktop = env.desktop /\ e.bus = env.bus
    /\ env' = e
    /\ last' = NoOp
    /\ events' = <<>>
    /\ discarded' = <<>>
    /\ UNCHANGED <<subclasses, monitor, alive>>

\* monitor = on.get_monitor(**kwargs), on being IdleMonitor or a defined subclass
GetMonitor(on, kwargs, in) ==
    /\ alive
    /\ \/ on = "IdleMonitor"
       \/ \E i \in 1..Len(subclasses) : subclasses[i] = on
    /\ \E r \in {GetMonitorOf(SubclassesOf(on), kwargs, env, in)} :
       /\ monitor' = IF r.status = "return" THEN r.m ELSE monitor
       /\ alive' = (r.status # "crash")
       /\ last' = [NoOp EXCEPT !.op = "get_monitor", !.on = on, !.kwargs = kwargs,
                               !.prev = monitor.cls, !.status = r.status,
                               !.exc = r.exc]
       /\ events' = r.events
       /\ discarded' = r.discarded
    /\ UNCHANGED <<subclasses, env>>

\* monitor.get_idle_time()
GetIdleTime(in) ==
    /\ alive
    /\ monitor # None
    /\ \E q \in {GetIdleTimeOf(monitor, env, in)} :
       /\ monitor' = q.m
       /\ last' = [NoOp EXCEPT !.op = "get_idle_time", !.prev = monitor.cls,
                               !.status = q.status, !.value = q.value,
                               !.exc = q.exc, !.dbus = q.dbus]
    /\ events' = <<>>
    /\ discarded' = <<>>
    /\ UNCHANGED <<subclasses, env, alive>>

\* monitor.is_idle()
IsIdle(in) ==
    /\ alive
    /\ monitor # None
    /\ \E q \in {IsIdleOf(monitor, env, in)} :
       /\ monitor' = q.m
       /\ last' = [NoOp EXCEPT !.op = "is_idle", !.prev = monitor.cls,
                               !.status = q.status, !.value = q.value,
                               !.idle = q.idle, !.exc = q.exc, !.dbus = q.dbus]
    /\ events' = <<>>
    /\ discarded' = <<>>
    /\ UNCHANGED <<subclasses, env, alive>>

Next ==
    \/ \E cls \in Classes : InitSubclass(cls)
    \/ \E e \in Envs : SetEnvironment(e)
    \/ \E kwargs \in KwargsSet, in \in ProbeInputs :
           GetMonitor("IdleMonitor", kwargs, in)
    \/ \E in \in InputsFor(monitor.cls) : GetIdleTime(in)
    \/ \E in \in InputsFor(monitor.cls) : IsIdle(in)

Spec == Init /\ [][Next]_vars

\* the classes of the module and a class derived from a backend, with
\* get_monitor called on IdleMonitor or on any class defined so far
NextClasses ==
    \/ \E cls \in Classes \cup DerivedClasses : InitSubclass(cls)
    \/ \E e \in Envs : SetEnvironment(e)
    \/ \E on \in Classes \cup DerivedClasses \cup {"IdleMonitor"},
           kwargs \in KwargsSet, in \in ProbeInputs :
           GetMonitor(on, kwargs, in)

SpecClasses == Init /\ [][NextClasses]_vars

----------------------------------------------------------------------------
(* Vocabulary of the properties *)

Queries == {"get_idle_time", "is_idle"}

\* candidate cls constructs and answers its probe on platform e
CandidateWorks(cls, kwargs, e) ==
    LET c == Construct(cls, kwargs, e) IN
    /\ c.status = "ok"
    /\ \A in \in ProbeInputs : GetIdleTimeOf(c.m, e, in).status = "return"

\* positions of the registry whose candidate works for the last call
Working == {i \in 1..Len(subclasses) : CandidateWorks(subclasses[i], last.kwargs, env)}

Min(S) == CHOOSE x \in S : \A y \in S : x <= y

\* positions whose constructor the last operation called, in call order
RECURSIVE ConstructedOf(_)
ConstructedOf(evs) ==
    IF evs = <<>> THEN <<>>
    ELSE IF Head(evs).call = "construct"
         THEN <<Head(evs).index>> \o ConstructedOf(Tail(evs))
         ELSE ConstructedOf(Tail(evs))

HoldsResource(m) ==
    m.connection = "open" \/ m.display = "open" \/ m.xss_info = "allocated"

----------------------------------------------------------------------------
(* C1: whenever some registered candidate constructs and answers its probe, *)
(* get_monitor returns an instance of the first such candidate and calls no *)
(* constructor of a candidate registered after it.                          *)
C1_FirstWorkingWins ==
    (last.op = "get_monitor" /\ Working # {}) =>
        /\ last.status = "return"
        /\ monitor.cls = subclasses[Min(Working)]
        /\ \A k \in 1..Len(events) : events[k].index <= Min(Working)

(* C2: whenever no registered candidate works (the empty registry included), *)
(* get_monitor raises RuntimeError "Could not find a working monitor." after *)
(* calling the constructor of every candidate exactly once, in order.        *)
C2_AllFailRaisesNoMonitor ==
    (last.op = "get_monitor" /\ Working = {}) =>
        /\ last.status = "raise"
        /\ last.exc = NoMonitorError
        /\ ConstructedOf(events) = [i \in 1..Len(subclasses) |-> i]

(* C3: in a get_monitor call, a candidate whose constructor failed is never  *)
(* asked for its idle time, and after a candidate whose probe failed the     *)
(* constructor of the next candidate is called (or, after the last one, the  *)
(* call raises the no-monitor error).                                        *)
C3_FailedProbeAdvances ==
    last.op = "get_monitor" =>
        \A k \in 1..Len(events) :
            /\ (events[k].call = "construct" /\ ~events[k].ok) =>
                   \A j \in 1..Len(events) :
                       ~(events[j].call = "get_idle_time"
                         /\ events[j].index = events[k].index)
            /\ (events[k].call = "get_idle_time" /\ ~events[k].ok) =>
                   IF events[k].index < Len(subclasses)
                   THEN /\ k < Len(events)
                        /\ events[k + 1].call = "construct"
                        /\ events[k + 1].index = events[k].index + 1
                   ELSE /\ k = Len(events)
                        /\ last.status = "raise"
                        /\ last.exc = NoMonitorError

\* the scenario [A fails to construct, B constructs and its probe raises,
\* C constructs and answers]: the monitor is C's
C3_Witness ==
    /\ last.op = "get_monitor"
    /\ last.status = "return"
    /\ events = <<Event("construct", 1, FALSE),
                  Event("construct", 2, TRUE), Event("get_idle_time", 2, FALSE),
                  Event("construct", 3, TRUE), Event("get_idle_time", 3, TRUE)>>
    /\ monitor.cls = subclasses[3]

(* C4: when get_monitor returns or raises, no instance it built and dropped  *)
(* still holds an open connection, an open display or an allocated buffer.   *)
C4_DiscardedReleased ==
    (last.op = "get_monitor" /\ last.status \in {"return", "raise"}) =>
        \A k \in 1..Len(discarded) : ~HoldsResource(discarded[k])

(* C5: is_idle returns exactly get_idle_time() > idle_threshold, so it is    *)
(* false when the two are equal, and it raises exactly when get_idle_time    *)
(* raises: every is_idle step agrees with a get_idle_time call made on the   *)
(* same instance and platform with the same readings.                        *)
C5_IsIdleIsGreaterThanThreshold ==
    [][last'.op = "is_idle" =>
          \E in \in InputsFor(monitor.cls) :
              LET q == GetIdleTimeOf(monitor, env, in) IN
              /\ last'.status = q.status
              /\ last'.exc = q.exc
              /\ monitor' = q.m
              /\ q.status = "return" =>
                     /\ last'.value = q.value
                     /\ last'.idle = (q.value.num > monitor.idle_threshold * q.value.den)
              /\ q.status = "raise" => ~last'.idle]_vars

\* the boundary: the idle time equals the threshold and is_idle returned false
C5_Witness ==
    /\ last.op = "is_idle"
    /\ last.status = "return"
    /\ last.value.num = monitor.idle_threshold * last.value.den
    /\ ~last.idle

(* C6: when a query on a session-bus monitor with an open connection gets    *)
(* the "service unknown" error response, the caller gets RuntimeError "Gnome *)
(* Mutter is not available, is gnome running?" and the connection is closed. *)
C6_ServiceUnknownClosesAndReports ==
    [][(/\ last'.op \in Queries
        /\ Resolve(monitor.cls) = "Gnome"
        /\ monitor.connection = "open"
        /\ env.bus = "ServiceUnknown") =>
          /\ last'.status = "raise"
          /\ last'.exc = MutterError
          /\ last'.dbus = ServiceUnknownName
          /\ monitor'.connection = "closed"]_vars

C6_Witness ==
    /\ last.op = "get_idle_time"
    /\ last.dbus = ServiceUnknownName
    /\ last.exc = MutterError
    /\ monitor.connection = "closed"

(* C7: a get_monitor call ends in one of two ways only: it returns a monitor *)
(* or it raises RuntimeError "Could not find a working monitor.".            *)
C7_OnlyMonitorOrNoMonitorError ==
    last.op = "get_monitor" =>
        \/ last.status = "return" /\ monitor # None
        \/ last.status = "raise" /\ last.exc = NoMonitorError

(* C8: every value get_idle_time returns is a non-negative number of seconds. *)
C8_IdleTimeNonNegative ==
    (last.op \in Queries /\ last.status = "return") => last.value.num >= 0

\* instance m answers a query on platform e
Answers(m, e) ==
    \/ Resolve(m.cls) \in {"Windows", "X11"}
    \/ Resolve(m.cls) = "Gnome" /\ m.connection = "open" /\ e.bus = "Reply"

(* C9: a query on the held monitor that cannot be answered raises to the     *)
(* caller, and a query that raises calls no constructor and no other         *)
(* candidate: the caller holds the same instance and the registry is         *)
(* untouched.                                                                *)
C9_QueryFailurePropagates ==
    [][last'.op \in Queries =>
          /\ ~Answers(monitor, env) => (last'.status = "raise" /\ last'.exc # NoExc)
          /\ last'.status = "raise" =>
                 /\ events' = <<>>
                 /\ discarded' = <<>>
                 /\ monitor'.cls = monitor.cls
                 /\ monitor'.idle_threshold = monitor.idle_threshold
                 /\ subclasses' = subclasses
                 /\ alive']_vars

\* a query raised although a registered candidate would work on this platform
C9_Witness ==
    /\ last.op \in Queries
    /\ last.status = "raise"
    /\ Resolve(monitor.cls) = "Gnome"
    /\ \E i \in 1..Len(subclasses) : CandidateWorks(subclasses[i], NoKwargs, env)

\* the position at which a search of the registry on platform e ends: the first
\* candidate that works or kills the process, 0 when there is none
Decisive(regs, kwargs, e) ==
    LET S == {i \in 1..Len(regs) :
                 \/ CandidateWorks(regs[i], kwargs, e)
                 \/ Construct(regs[i], kwargs, e).status = "crash"} IN
    IF S = {} THEN 0 ELSE Min(S)

(* C10: every get_monitor call searches afresh: it calls the constructors of *)
(* positions 1, 2, ... in order up to the position the platform decides, and *)
(* what it returns is a newly constructed instance of that candidate,        *)
(* whatever monitor the caller held before.                                  *)
C10_FreshSearch ==
    last.op = "get_monitor" =>
        LET d == Decisive(subclasses, last.kwargs, env)
            n == IF d = 0 THEN Len(subclasses) ELSE d IN
        /\ ConstructedOf(events) = [i \in 1..n |-> i]
        /\ (last.status = "return") = (d > 0 /\ CandidateWorks(subclasses[d], last.kwargs, env))
        /\ last.status = "return" =>
               monitor = Construct(subclasses[d], last.kwargs, env).m

\* a second search after a success: the caller held a Gnome monitor and the
\* new search returned another class, or could not find a monitor
C10_Witness ==
    /\ last.op = "get_monitor"
    /\ Resolve(last.prev) = "Gnome"
    /\ \/ last.status = "return" /\ Resolve(monitor.cls) # "Gnome"
       \/ last.status = "raise" /\ Resolve(monitor.cls) = "Gnome"

\* the get_idle_time calls the last operation made on the candidate at position i
ProbesOf(i) ==
    {j \in 1..Len(events) : events[j].call = "get_idle_time" /\ events[j].index = i}

(* C11: in a get_monitor call, every constructor call that succeeds is       *)
(* followed at once by one get_idle_time call on the new instance, which is  *)
(* the only one made on that candidate; the instance returned is the one     *)
(* whose single probe returned, and that probe is the last call made.        *)
C11_ProbedOnceRightAfterConstruction ==
    last.op = "get_monitor" =>
        /\ \A k \in 1..Len(events) :
               (events[k].call = "construct" /\ events[k].ok) =>
                   /\ k < Len(events)
                   /\ events[k + 1].call = "get_idle_time"
                   /\ events[k + 1].index = events[k].index
                   /\ ProbesOf(events[k].index) = {k + 1}
        /\ last.status = "return" =>
               /\ Len(events) >= 2
               /\ events[Len(events)] =
                      Event("get_idle_time", events[Len(events)].index, TRUE)
               /\ monitor.cls = subclasses[events[Len(events)].index]

\* two candidates constructed and were probed, the second is the monitor
C11_Witness ==
    /\ last.op = "get_monitor"
    /\ last.status = "return"
    /\ Cardinality({k \in 1..Len(events) :
                       events[k].call = "construct" /\ events[k].ok}) >= 2

(* C12: the registry only grows, by one class at its end per class           *)
(* statement: no step removes, repeats or reorders an entry, and get_monitor, *)
(* get_idle_time and is_idle leave it as it is.                              *)
C12_RegistryAppendOnly ==
    [][/\ last'.op # "none" => subclasses' = subclasses
       /\ subclasses' # subclasses =>
              \E cls \in Classes :
                  /\ subclasses' = Append(subclasses, cls)
                  /\ \A i \in 1..Len(subclasses) : subclasses[i] # cls]_vars

\* a registry of several classes was searched to its end and is still there
C12_Witness ==
    /\ last.op = "get_monitor"
    /\ Len(subclasses) >= 2
    /\ ConstructedOf(events) = [i \in 1..Len(subclasses) |-> i]

(* C13: the monitor get_monitor returns carries the idle_threshold passed to *)
(* it, 120 when none was passed, and no get_idle_time or is_idle call,       *)
(* returning or raising, changes the idle_threshold of the instance.         *)
C13_ThresholdFixedAtConstruction ==
    [][/\ (last'.op = "get_monitor" /\ last'.status = "return") =>
              monitor'.idle_threshold = IF last'.kwargs.given
                                        THEN last'.kwargs.idle_threshold
                                        ELSE 120
       /\ last'.op \in Queries =>
              monitor'.idle_threshold = monitor.idle_threshold]_vars

\* a threshold passed by the caller is still there after a query that raised
C13_Witness ==
    /\ last.op \in Queries
    /\ last.status = "raise"
    /\ monitor.idle_threshold \in Thresholds

(* C14 as stated: a query on a session-bus monitor whose earlier query got a *)
(* bus error response (which closed its connection) returns once the service *)
(* answers again.                                                            *)
C14_LaterCallSucceeds ==
    [][(/\ last'.op \in Queries
        /\ Resolve(monitor.cls) = "Gnome"
        /\ monitor.connection = "closed"
        /\ env.bus = "Reply") => last'.status = "return"]_vars

(* C14 as amended: a query on a session-bus monitor whose connection is open *)
(* returns whenever the service answers, and only a bus error response       *)
(* closes the connection; once it is closed every later query on the         *)
(* instance raises and leaves it closed, whatever the service does.          *)
C14_ClosedConnectionKeepsFailing ==
    [][(last'.op \in Queries /\ Resolve(monitor.cls) = "Gnome") =>
          /\ monitor.connection = "closed" =>
                 /\ last'.status = "raise"
                 /\ last'.dbus = NoExc
                 /\ monitor'.connection = "closed"
          /\ (monitor.connection = "open" /\ env.bus = "Reply") =>
                 /\ last'.status = "return"
                 /\ monitor'.connection = "open"
          /\ (monitor.connection = "open" /\ monitor'.connection = "closed") =>
                 last'.dbus # NoExc]_vars

\* the service answers, and the query raised because the connection is closed
C14_Witness ==
    /\ last.op \in Queries
    /\ Resolve(monitor.cls) = "Gnome"
    /\ monitor.connection = "closed"
    /\ env.bus = "Reply"
    /\ last.status = "raise"
    /\ last.dbus = NoExc

(* C15: on a session-bus monitor with an open connection, a query that gets  *)
(* a bus error response of any name closes the connection; for a name other  *)
(* than "service unknown" the caller gets the DBusErrorResponse itself; a    *)
(* query that fails without a bus error response raises with the connection  *)
(* still open.                                                               *)
C15_EveryBusErrorCloses ==
    [][(/\ last'.op \in Queries
        /\ Resolve(monitor.cls) = "Gnome"
        /\ monitor.connection = "open") =>
          /\ env.bus = "DBusError" =>
                 /\ last'.status = "raise"
                 /\ last'.exc = "DBusErrorResponse"
                 /\ last'.dbus = OtherErrorName
                 /\ monitor'.connection = "closed"
          /\ env.bus = "ServiceUnknown" =>
                 /\ last'.status = "raise"
                 /\ monitor'.connection = "closed"
          /\ env.bus \in {"IOError", "down"} =>
                 /\ last'.status = "raise"
                 /\ last'.dbus = NoExc
                 /\ last'.exc \notin {MutterError, "DBusErrorResponse"}
                 /\ monitor'.connection = "open"]_vars

C15_Witness ==
    /\ last.op \in Queries
    /\ last.dbus = OtherErrorName
    /\ last.exc = "DBusErrorResponse"
    /\ monitor.connection = "closed"

(* C16: there is one registry for IdleMonitor and every backend.  A class    *)
(* derived from a backend stands in it after its base, and a get_monitor     *)
(* call on IdleMonitor or on any defined backend class goes through that     *)
(* whole list from its first position in order: it calls the constructors of *)
(* positions 1, 2, ... up to the position the platform decides, returns an   *)
(* instance of the class at that position, and raises the no-monitor error   *)
(* when no position decides.                                                 *)
C16_OneSharedRegistry ==
    /\ \A i \in 1..Len(subclasses) :
           BaseOf(subclasses[i]) # "IdleMonitor" =>
               \E j \in 1..(i - 1) : subclasses[j] = BaseOf(subclasses[i])
    /\ last.op = "get_monitor" =>
           LET d == Decisive(subclasses, last.kwargs, env)
               n == IF d = 0 THEN Len(subclasses) ELSE d IN
           /\ last.on \in {"IdleMonitor"} \cup {subclasses[i] : i \in 1..Len(subclasses)}
           /\ ConstructedOf(events) = [i \in 1..n |-> i]
           /\ last.status = "return" => d > 0 /\ monitor.cls = subclasses[d]
           /\ d = 0 => last.status = "raise" /\ last.exc = NoMonitorError

C16_Witness ==
    /\ last.op = "get_monitor"
    /\ last.on = "GnomeChild"
    /\ subclasses = <<"Gnome", "GnomeChild", "X11">>
    /\ ConstructedOf(events) = <<1, 2, 3>>
    /\ last.status = "return"
    /\ monitor.cls = "X11"

============================================================================
